---- MODULE Spec2Model ----
(***************************************************************************)
(* VK profile photo backup to Yandex.Disk (src/main.py).                   *)
(*                                                                         *)
(* The model follows VKPhotoBackup.backup_photos step by step: one action  *)
(* per network or file-system interaction of the pipeline, each carrying   *)
(* the local computation the code performs around it.  The remote services *)
(* (VK API, Yandex.Disk API) and the local file system are the             *)
(* environment: every answer they can give is drawn with \E.               *)
(***************************************************************************)
EXTENDS Integers, Sequences, FiniteSets, TLC

\* ------------------------------------------------------------------ bounds

\* Largest number of photos a fetch returns (the `count` argument).
MaxPhotos == 3

\* Longest list of size variants explored for get_largest_photo_size alone.
MaxSizes == 3

\* ------------------------------------------------------- input domains

\* Photos of a profile.  Identifiers may repeat, likes counts may tie; the
\* photos fetched by one run of the pipeline carry one capture date.
PhotoIds == {1, 2}
LikesCounts == {0, 1}
CaptureDates == {86400}

Variant(w, h, t) == [width |-> w, height |-> h, url |-> <<"url", t, w, h>>, type |-> t]

\* Size lists of the photos of a profile: no variant at all, or two variants
\* whose larger one comes last.
SizeLists == {<<>>, <<Variant(1, 1, "s"), Variant(2, 1, "m")>>}

Photos == [id : PhotoIds, likes : LikesCounts, date : CaptureDates, sizes : SizeLists]

RECURSIVE SeqsUpTo(_, _)
SeqsUpTo(S, n) ==
    IF n = 0 THEN {<<>>}
    ELSE LET shorter == SeqsUpTo(S, n - 1)
         IN  shorter \cup {Append(q, x) : q \in {r \in shorter : Len(r) = n - 1}, x \in S}

PhotoLists == SeqsUpTo(Photos, MaxPhotos)

\* ------------------------------------------------------------ responses

\* A response of a remote call: the transport failed (timeout, connection
\* error), or an HTTP status came back; error_code is the code of the
\* `error` object of a VK body (0: the body has no `error`).
Resp(net, status, code) == [net |-> net, status |-> status, error_code |-> code]

Transport == Resp("failed", 0, 0)

VkResponses == {Transport, Resp("ok", 500, 0), Resp("ok", 200, 0),
                Resp("ok", 200, 5), Resp("ok", 200, 30)}

YandexStatuses == {200, 201, 202, 401, 404, 409, 500}

YandexResponses == {Transport} \cup {Resp("ok", s, 0) : s \in YandexStatuses}

\* requests.Response.raise_for_status raises HTTPError for 4xx and 5xx only.
raise_for_status(status) == status >= 400 /\ status < 600

\* ------------------------------------------------- outcomes of a call

\* What a call of one of the methods does: it returns (exc = "none") or
\* raises an exception of class exc with text msg.
Returns(v) == [exc |-> "none", msg |-> "", value |-> v]
Raises(cls, msg) == [exc |-> cls, msg |-> msg, value |-> <<>>]

\* ------------------------------------------------------ size selection

Area(size) == size.width * size.height

\* Variation: the maximum also moves on an equal area (the last one wins).
RECURSIVE ScanSizesLast(_, _, _, _)
ScanSizesLast(sizes, k, max_size, best_photo) ==
    IF k > Len(sizes) THEN best_photo
    ELSE IF Area(sizes[k]) >= max_size
         THEN ScanSizesLast(sizes, k + 1, Area(sizes[k]), sizes[k])
         ELSE ScanSizesLast(sizes, k + 1, max_size, best_photo)

\* The loop of get_largest_photo_size over sizes[k..]: the running maximum
\* starts at 0 with best = sizes[0] and moves only on a strictly larger area.
RECURSIVE ScanSizes(_, _, _, _)
ScanSizes(sizes, k, max_size, best_photo) ==
    IF k > Len(sizes) THEN best_photo
    ELSE IF Area(sizes[k]) > max_size
         THEN ScanSizes(sizes, k + 1, Area(sizes[k]), sizes[k])
         ELSE ScanSizes(sizes, k + 1, max_size, best_photo)

get_largest_photo_size(photo) ==
    IF photo.sizes = <<>>
    THEN Raises("ValueError", "no sizes")
    ELSE LET best_photo == ScanSizes(photo.sizes, 1, 0, photo.sizes[1])
         IN  Returns([url |-> best_photo.url, type |-> best_photo.type])

\* ---------------------------------------------------------------- sort

RECURSIVE MaxArea(_, _)
MaxArea(sizes, k) ==
    IF k > Len(sizes) THEN 0
    ELSE LET rest == MaxArea(sizes, k + 1)
         IN  IF Area(sizes[k]) > rest THEN Area(sizes[k]) ELSE rest

\* The sort key of backup_photos: 0 without sizes, else the largest area.
get_max_size(photo) == IF photo.sizes = <<>> THEN 0 ELSE MaxArea(photo.sizes, 1)

\* list.sort(key=..., reverse=True) is stable: elements of equal key keep
\* their order.  x goes behind every element whose key is not smaller.
\* Variation: x goes behind the elements of larger key only, which puts it
\* in front of the elements of equal key that came before it.
RECURSIVE InsertDescStrict(_, _)
InsertDescStrict(x, sorted) ==
    IF sorted = <<>> THEN <<x>>
    ELSE IF get_max_size(Head(sorted)) > get_max_size(x)
         THEN <<Head(sorted)>> \o InsertDescStrict(x, Tail(sorted))
         ELSE <<x>> \o sorted

RECURSIVE InsertDesc(_, _)
InsertDesc(x, sorted) ==
    IF sorted = <<>> THEN <<x>>
    ELSE IF get_max_size(Head(sorted)) >= get_max_size(x)
         THEN <<Head(sorted)>> \o InsertDesc(x, Tail(sorted))
         ELSE <<x>> \o sorted

RECURSIVE SortDesc(_, _)
SortDesc(photos, k) ==
    IF k = 0 THEN <<>>
    ELSE InsertDesc(photos[k], SortDesc(photos, k - 1))

sort_photos(photos) == SortDesc(photos, Len(photos))

\* ----------------------------------------------------------- filenames

\* A filename is the sequence of the fields its f-string joins with "_",
\* closed by the extension.  A number prints as decimal digits and a date
\* as YYYY-MM-DD, neither holds "_", and a date always holds "-": two
\* token sequences are equal exactly when the strings are.
Num(n) == [k |-> "num", v |-> n]
Date(d) == [k |-> "date", v |-> d]
Ext == [k |-> "ext", v |-> 0]

\* datetime.fromtimestamp(ts).strftime('%Y-%m-%d'), read in UTC: the day
\* number stands for its calendar date.
strftime(ts) == ts \div 86400

same_likes_photos(photo, photos) == {j \in DOMAIN photos : photos[j].likes = photo.likes}

\* Variation: the date is never part of the name.
base_filename_likes_only(photo, photos) == <<Num(photo.likes)>>

base_filename(photo, photos) ==
    IF Cardinality(same_likes_photos(photo, photos)) > 1
    THEN <<Num(photo.likes), Date(strftime(photo.date))>>
    ELSE <<Num(photo.likes)>>

\* Variation: the numeric suffix is the number of candidates tried so far.
NextCandidateCounted(base, photo_id, counter) ==
    IF counter = 1
    THEN base \o <<Num(photo_id), Ext>>
    ELSE base \o <<Num(photo_id), Num(counter + 1), Ext>>

\* The candidate the while loop builds when it finds the previous one taken.
NextCandidate(base, photo_id, counter) ==
    IF counter = 1
    THEN base \o <<Num(photo_id), Ext>>
    ELSE base \o <<Num(photo_id), Num(counter), Ext>>

\* Variation: an `if` in place of the `while` (one fallback, not rechecked).
ProbeOnce(base, photo_id, filename, counter, used_filenames) ==
    IF filename \in used_filenames
    THEN NextCandidate(base, photo_id, counter)
    ELSE filename

\* while filename in used_filenames: ...; counter += 1
RECURSIVE Probe(_, _, _, _, _)
Probe(base, photo_id, filename, counter, used_filenames) ==
    IF filename \in used_filenames
    THEN Probe(base, photo_id, NextCandidate(base, photo_id, counter),
               counter + 1, used_filenames)
    ELSE filename

\* The name generate_filename returns; the caller's set gains it.
generate_filename(photo, photos, used_filenames) ==
    LET base == base_filename(photo, photos)
    IN  Probe(base, photo.id, base \o <<Ext>>, 1, used_filenames)

\* ------------------------------------------------- the remote methods

\* Variation: a token VK rejects is reported by the return value only.
check_vk_no_raise(r) ==
    IF r.net = "failed" THEN Raises("RequestException", "transport error")
    ELSE IF raise_for_status(r.status) THEN Raises("RequestException", "http error")
    ELSE IF r.error_code # 0 THEN Returns(FALSE)
    ELSE Returns(TRUE)

check_vk_token_validity(r) ==
    IF r.net = "failed" THEN Raises("RequestException", "transport error")
    ELSE IF raise_for_status(r.status) THEN Raises("RequestException", "http error")
    ELSE IF r.error_code = 5 THEN Raises("ValueError", "invalid VK token")
    ELSE IF r.error_code # 0 THEN Raises("ValueError", "VK API Error")
    ELSE Returns(TRUE)

\* Variation: a rejected token (401) is reported by the return value only.
check_yandex_no_raise(r) ==
    IF r.net = "failed" THEN Raises("RequestException", "transport error")
    ELSE IF r.status = 401 THEN Returns(FALSE)
    ELSE IF r.status = 200 THEN Returns(TRUE)
    ELSE IF raise_for_status(r.status) THEN Raises("RequestException", "http error")
    ELSE Returns("None")

check_yandex_disk_availability(r) ==
    IF r.net = "failed" THEN Raises("RequestException", "transport error")
    ELSE IF r.status = 401 THEN Raises("ValueError", "invalid Yandex.Disk token")
    ELSE IF r.status = 200 THEN Returns(TRUE)
    ELSE IF raise_for_status(r.status) THEN Raises("RequestException", "http error")
    ELSE Returns("None")

get_profile_photos(r, items) ==
    IF r.net = "failed" THEN Raises("RequestException", "transport error")
    ELSE IF raise_for_status(r.status) THEN Raises("RequestException", "http error")
    ELSE IF r.error_code # 0 THEN Raises("ValueError", "VK API Error")
    ELSE Returns(items)

\* Variation: any answer of the service counts as "the folder is there".
check_folder_any_status(r) == r.net = "ok"

check_folder_exists(r) == r.net = "ok" /\ r.status = 200

\* Variation: 409 has no branch of its own and goes to raise_for_status.
put_yandex_folder_no_409(r) ==
    IF r.net = "failed" THEN Raises("RequestException", "transport error")
    ELSE IF r.status = 201 THEN Returns(TRUE)
    ELSE IF raise_for_status(r.status) THEN Raises("RequestException", "http error")
    ELSE Returns("None")

\* The PUT of create_yandex_folder, issued when the folder was not found.
put_yandex_folder(r) ==
    IF r.net = "failed" THEN Raises("RequestException", "transport error")
    ELSE IF r.status = 201 THEN Returns(TRUE)
    ELSE IF r.status = 409 THEN Returns(TRUE)
    ELSE IF raise_for_status(r.status) THEN Raises("RequestException", "http error")
    ELSE Returns("None")

upload_photo_to_yandex(r) ==
    IF r.net = "failed" THEN Raises("RequestException", "transport error")
    ELSE IF r.status = 202 THEN Returns(TRUE)
    ELSE IF raise_for_status(r.status) THEN Raises("RequestException", "http error")
    ELSE Returns("None")

\* open(filename, 'w') or json.dump may fail with IOError.
FileOutcomes == {"ok", "open_failed", "write_failed"}

\* Variation: the IOError is logged and the file name returned all the same.
save_photos_info_quiet(io) == Returns("photos_info_<user_id>.json")

save_photos_info(io) ==
    IF io = "ok" THEN Returns("photos_info_<user_id>.json")
    ELSE Raises("IOError", "cannot write json")

\* ------------------------------------------------------------ results

folder_name == "VK_Photos_<user_id>_<today>"

NoResult == [returned |-> FALSE]

Failure(msg) == [success |-> FALSE, message |-> msg]

\* Variation: the test for an empty list is missing.
NoPhotosNever(items) == FALSE

\* if not photos: (the fetch answered with an empty list)
NoPhotos(items) == items = <<>>

\* Variation: the test for zero uploads can never hold.
NothingUploadedNever(n) == n < 0

\* Variation: a single upload is not enough for a manifest.
NothingUploadedBelowTwo(n) == n < 2

\* if successful_uploads == 0:
NothingUploaded(n) == n = 0

\* Classes derived from Exception among those the pipeline raises.
ExceptionClasses == {"ValueError", "RequestException", "IOError"}

\* Variation: the handlers name ValueError and RequestException only.
CaughtNarrow(exc) == exc = "ValueError" \/ exc = "RequestException"

\* The except clauses of backup_photos: ValueError, then Exception.
Caught(exc) == exc = "ValueError" \/ exc \in ExceptionClasses

\* Variation: the inner handler names RequestException only.
CaughtPerItemNarrow(exc) == exc = "RequestException"

\* The inner except Exception of the upload loop.
CaughtPerItem(exc) == exc \in ExceptionClasses

\* ---------------------------------------------------------------- state

VARIABLES
    pc,                 \* where backup_photos stands
    calls,              \* the methods backup_photos has called, in order
    fetched,            \* number of photos the fetch returned (-1: none yet)
    photos,             \* the fetched list, sorted (local `photos`)
    processed,          \* the loop's passes: position, the service's answer,
                        \* whether the pass raised
    used_filenames,     \* the tracking set of the run
    allocated,          \* what generate_filename returned, call by call
    photos_info,        \* the manifest entries collected so far
    successful_uploads, \* the counter of the loop
    result,             \* the dictionary backup_photos returned
    escaped,            \* class of an exception that left backup_photos
    failed_at,          \* the step at which the run took an early return
    fault_at,           \* the setup or file step the environment let fail
    folder_exists,      \* Yandex.Disk: the destination folder is there
    disk_files,         \* Yandex.Disk: uploads the service accepted (202)
    manifest_file,      \* local disk: state of photos_info_<user_id>.json
    manifest_content,   \* local disk: the entries written to it
    sel_photo,          \* argument of a lone get_largest_photo_size call
    sel_out,            \* what that call did
    ensure_pc,          \* where a lone create_yandex_folder call stands
    ensure_calls,       \* the create_yandex_folder calls made in sequence
    user_id_arg,        \* argument of a lone validate_and_clean_user_id call
    user_id_out,        \* what that call did
    unsorted            \* a fetched list handed to the sort on its own

vars == <<pc, calls, fetched, photos, processed, used_filenames, allocated,
          photos_info, successful_uploads, result, escaped, failed_at, fault_at,
          folder_exists, disk_files, manifest_file, manifest_content,
          sel_photo, sel_out, ensure_pc, ensure_calls, user_id_arg, user_id_out,
          unsorted>>

ret_vars == <<result, escaped, failed_at>>
run_vars == <<photos, processed, used_filenames, allocated, photos_info,
              successful_uploads>>
disk_vars == <<folder_exists, disk_files>>
file_vars == <<manifest_file, manifest_content>>
sel_vars == <<sel_photo, sel_out>>
ensure_vars == <<ensure_pc, ensure_calls>>
uid_vars == <<user_id_arg, user_id_out>>
lone_vars == <<ensure_vars, uid_vars, unsorted>>

NoSel == [exc |-> "not called", msg |-> "", value |-> <<>>]
NoPhoto == [id |-> 0, likes |-> 0, date |-> 0, sizes |-> <<>>]

\* Variation: the index lags one pass behind, so the first photo is gone
\* through twice.
i_lagging == IF processed = <<>> THEN 0 ELSE Len(processed) - 1

\* The number of photos the loop has gone through (enumerate's i).
i == Len(processed)

\* How the environment answered a request: with a fault (no connection, a
\* 4xx or 5xx status, an `error` object in a VK body), with 202, or with
\* another status.
Fault(r) == r.net = "failed" \/ r.status >= 400 \/ r.error_code # 0
AnswerClass(r) ==
    IF Fault(r) THEN "fault" ELSE IF r.status = 202 THEN "accepted" ELSE "other"

\* Variation: the name stays in the set only when the upload succeeded.
reserve_on_success(used, filename, up) ==
    IF up.exc = "none" THEN used \cup {filename} ELSE used

\* The tracking set after a pass of the loop that reached generate_filename:
\* used_filenames.add(filename) runs before the upload, and the except clause
\* of the loop leaves the set alone, so the outcome `up` plays no part.
reserve(used, filename, up) == used \cup {filename}

\* Variation: a failed upload is followed by the removal of the items
\* uploaded before it.
after_upload_rollback(files, filename, r) ==
    IF AnswerClass(r) = "accepted" THEN files \cup {filename} ELSE {}

\* The folder's content after the one request of upload_photo_to_yandex, a
\* POST to /resources/upload: the item is there when the service accepted it.
after_upload(files, filename, r) ==
    IF AnswerClass(r) = "accepted" THEN files \cup {filename} ELSE files

InitRun ==
    /\ pc = "check_vk"
    /\ calls = <<>>
    /\ fetched = -1
    /\ photos = <<>>
    /\ processed = <<>>
    /\ used_filenames = {}
    /\ allocated = <<>>
    /\ photos_info = <<>>
    /\ successful_uploads = 0
    /\ result = NoResult
    /\ escaped = "none"
    /\ failed_at = "none"
    /\ fault_at = "none"
    /\ disk_files = {}
    /\ manifest_file = "absent"
    /\ manifest_content = <<>>

\* No method is being exercised on its own.
LoneIdle ==
    /\ user_id_arg = <<>>
    /\ user_id_out = NoSel
    /\ unsorted = <<>>

EnsureIdle ==
    /\ ensure_pc = "idle"
    /\ ensure_calls = <<>>

\* A run starts with the day's folder absent, or present from an earlier run.
Init ==
    /\ InitRun
    /\ folder_exists \in BOOLEAN
    /\ sel_photo = NoPhoto
    /\ sel_out = NoSel
    /\ EnsureIdle
    /\ LoneIdle

\* ------------------------------------------------------------- actions

\* An exception raised in the outer try block at `step`: the except clauses
\* of backup_photos turn it into a failure result.
Abort(o, step) ==
    /\ pc' = "done"
    /\ failed_at' = step
    /\ IF Caught(o.exc)
       THEN result' = Failure(o.msg) /\ escaped' = escaped
       ELSE result' = result /\ escaped' = o.exc

\* self.check_vk_token_validity()
CheckVk ==
    /\ pc = "check_vk"
    /\ calls' = Append(calls, "check_vk_token_validity")
    /\ \E r \in VkResponses :
         LET o == check_vk_token_validity(r)
         IN  /\ fault_at' = IF Fault(r) THEN "check_vk" ELSE fault_at
             /\ IF o.exc = "none"
                THEN pc' = "check_yandex" /\ UNCHANGED ret_vars
                ELSE Abort(o, "check_vk")
    /\ UNCHANGED <<fetched, run_vars, disk_vars, file_vars, sel_vars, lone_vars>>

\* self.check_yandex_disk_availability()
CheckYandex ==
    /\ pc = "check_yandex"
    /\ calls' = Append(calls, "check_yandex_disk_availability")
    /\ \E r \in YandexResponses :
         LET o == check_yandex_disk_availability(r)
         IN  /\ fault_at' = IF Fault(r) THEN "check_yandex" ELSE fault_at
             /\ IF o.exc = "none"
                THEN pc' = "get_photos" /\ UNCHANGED ret_vars
                ELSE Abort(o, "check_yandex")
    /\ UNCHANGED <<fetched, run_vars, disk_vars, file_vars, sel_vars, lone_vars>>

\* photos = self.get_profile_photos(...); the empty case; photos.sort(...)
GetPhotos ==
    /\ pc = "get_photos"
    /\ calls' = Append(calls, "get_profile_photos")
    /\ \E r \in VkResponses, items \in PhotoLists :
         LET o == get_profile_photos(r, items)
         IN  /\ fault_at' = IF Fault(r) THEN "get_photos" ELSE fault_at
             /\ IF o.exc # "none"
                THEN Abort(o, "get_photos") /\ UNCHANGED <<photos, fetched>>
                ELSE /\ fetched' = Len(o.value)
                     /\ IF NoPhotos(o.value)
                        THEN /\ pc' = "done"
                             /\ result' = Failure("no photos in profile")
                             /\ failed_at' = "no_photos"
                             /\ UNCHANGED <<photos, escaped>>
                        ELSE /\ pc' = "create_folder"
                             /\ photos' = sort_photos(o.value)
                             /\ UNCHANGED ret_vars
    /\ UNCHANGED <<processed, used_filenames, allocated, photos_info,
                   successful_uploads, disk_vars, file_vars, sel_vars, lone_vars>>

\* What the service can answer about the folder: the truth, or a fault.
FolderFaults == {Transport, Resp("ok", 500, 0)}
FolderGetResponses ==
    FolderFaults \cup {Resp("ok", IF folder_exists THEN 200 ELSE 404, 0)}
FolderPutResponses ==
    FolderFaults \cup {Resp("ok", IF folder_exists THEN 409 ELSE 201, 0)}

\* create_yandex_folder up to its existence check.
CreateFolderCheck ==
    /\ pc = "create_folder"
    /\ calls' = Append(calls, "create_yandex_folder")
    /\ \E r \in FolderGetResponses :
         pc' = IF check_folder_exists(r) THEN "upload_loop" ELSE "put_folder"
    /\ UNCHANGED <<ret_vars, fault_at, fetched, run_vars, disk_vars, file_vars, sel_vars, lone_vars>>

\* create_yandex_folder from its PUT on.
CreateFolderPut ==
    /\ pc = "put_folder"
    /\ \E r \in FolderPutResponses :
         LET o == put_yandex_folder(r)
         IN  /\ folder_exists' = (folder_exists \/ (r.net = "ok" /\ r.status = 201))
             /\ fault_at' = IF Fault(r) /\ r.status # 409 THEN "create_folder" ELSE fault_at
             /\ IF o.exc = "none"
                THEN pc' = "upload_loop" /\ UNCHANGED ret_vars
                ELSE Abort(o, "create_folder")
    /\ UNCHANGED <<calls, fetched, run_vars, disk_files, file_vars, sel_vars, lone_vars>>

\* Somebody else creates the folder between the check and the PUT.
OtherActorCreatesFolder ==
    /\ pc = "put_folder"
    /\ ~folder_exists
    /\ folder_exists' = TRUE
    /\ UNCHANGED <<pc, calls, fetched, ret_vars, fault_at, run_vars, disk_files,
                   file_vars, sel_vars, lone_vars>>

\* One pass of the for loop: size selection, filename, upload, bookkeeping,
\* with the inner except Exception around them.
UploadItem ==
    /\ pc = "upload_loop"
    /\ i < Len(photos)
    /\ LET photo == photos[i + 1]
           sel == get_largest_photo_size(photo)
       IN  IF sel.exc # "none"
           THEN /\ calls' = Append(calls, "get_largest_photo_size")
                /\ processed' = Append(processed,
                       [position |-> i + 1, answer |-> "no_request", raised |-> TRUE])
                /\ IF CaughtPerItem(sel.exc)
                   THEN UNCHANGED <<pc, ret_vars>>
                   ELSE Abort(sel, "upload_loop")
                /\ UNCHANGED <<used_filenames, allocated, photos_info,
                               successful_uploads, disk_files>>
           ELSE LET filename == generate_filename(photo, photos, used_filenames)
                IN  \E r \in YandexResponses :
                      LET up == upload_photo_to_yandex(r)
                      IN  /\ calls' = calls \o <<"get_largest_photo_size",
                                 "generate_filename", "upload_photo_to_yandex">>
                          /\ processed' = Append(processed,
                                 [position |-> i + 1, answer |-> AnswerClass(r),
                                  raised |-> up.exc # "none"])
                          /\ used_filenames' = reserve(used_filenames, filename, up)
                          /\ allocated' = Append(allocated,
                                 [position |-> i + 1, file_name |-> filename])
                          /\ disk_files' = after_upload(disk_files, filename, r)
                          /\ IF up.exc = "none"
                             THEN /\ photos_info' = Append(photos_info,
                                        [file_name |-> filename, size |-> sel.value.type])
                                  /\ successful_uploads' = successful_uploads + 1
                                  /\ UNCHANGED <<pc, ret_vars>>
                             ELSE /\ UNCHANGED <<photos_info, successful_uploads>>
                                  /\ IF CaughtPerItem(up.exc)
                                     THEN UNCHANGED <<pc, ret_vars>>
                                     ELSE Abort(up, "upload_loop")
    /\ UNCHANGED <<fetched, fault_at, photos, folder_exists, file_vars, sel_vars, lone_vars>>

\* Variation: the uploaded count is taken from the length of the list.
SuccessCountsAll(json_filename) ==
    [success |-> TRUE,
     total_photos |-> Len(photos),
     uploaded_photos |-> Len(photos),
     folder_name |-> folder_name,
     json_file |-> json_filename,
     photos_info |-> photos_info]

Success(json_filename) ==
    [success |-> TRUE,
     total_photos |-> Len(photos),
     uploaded_photos |-> successful_uploads,
     folder_name |-> folder_name,
     json_file |-> json_filename,
     photos_info |-> photos_info]

\* After the loop: the zero-uploads return, or save_photos_info and the
\* success result.
Finalize ==
    /\ pc = "upload_loop"
    /\ i = Len(photos)
    /\ IF NothingUploaded(successful_uploads)
       THEN /\ pc' = "done"
            /\ result' = Failure("no photo was uploaded")
            /\ failed_at' = "no_uploads"
            /\ UNCHANGED <<calls, escaped, fault_at, file_vars>>
       ELSE \E io \in FileOutcomes :
              LET o == save_photos_info(io)
              IN  /\ calls' = Append(calls, "save_photos_info")
                  /\ fault_at' = IF io = "ok" THEN fault_at ELSE "save_photos_info"
                  /\ manifest_file' = IF io = "ok" THEN "written"
                                      ELSE IF io = "write_failed" THEN "partial"
                                      ELSE manifest_file
                  /\ manifest_content' = IF io = "ok" THEN photos_info ELSE manifest_content
                  /\ IF o.exc = "none"
                     THEN /\ pc' = "done"
                          /\ result' = Success(o.value)
                          /\ UNCHANGED <<escaped, failed_at>>
                     ELSE Abort(o, "save_photos_info")
    /\ UNCHANGED <<fetched, run_vars, disk_vars, sel_vars, lone_vars>>

Next ==
    \/ CheckVk
    \/ CheckYandex
    \/ GetPhotos
    \/ CreateFolderCheck
    \/ CreateFolderPut
    \/ OtherActorCreatesFolder
    \/ UploadItem
    \/ Finalize

Spec == Init /\ [][Next]_vars

\* The steps backup_photos itself takes.  The interpreter runs the method to
\* its end and every request carries timeout=30 (it answers or raises), so
\* a step that can be taken is taken.
RunSteps ==
    \/ CheckVk
    \/ CheckYandex
    \/ GetPhotos
    \/ CreateFolderCheck
    \/ CreateFolderPut
    \/ UploadItem
    \/ Finalize

FairSpec == Init /\ [][Next]_vars /\ WF_vars(RunSteps)

\* ------------------------------------- get_largest_photo_size on its own

\* Widths and heights of a variant; 0 is what size.get('width', 0) gives for
\* a variant without the key.
Dims == {0, 1, 2}
SizeTypes == {"s", "m"}
Variants == {Variant(w, h, t) : w \in Dims, h \in Dims, t \in SizeTypes}

\* photo.get('sizes', []): a photo without the key stands as sizes = <<>>.
SelPhotos == {[id |-> 1, likes |-> 0, date |-> d, sizes |-> ss] :
                d \in CaptureDates, ss \in SeqsUpTo(Variants, MaxSizes)}

InitSizes ==
    /\ InitRun
    /\ folder_exists = FALSE
    /\ sel_photo \in SelPhotos
    /\ sel_out = NoSel
    /\ EnsureIdle
    /\ LoneIdle

SelectSize ==
    /\ sel_out.exc = "not called"
    /\ sel_out' = get_largest_photo_size(sel_photo)
    /\ UNCHANGED <<pc, calls, fetched, ret_vars, fault_at, run_vars, disk_vars,
                   file_vars, sel_photo, lone_vars>>

NextSizes == SelectSize

SpecSizes == InitSizes /\ [][NextSizes]_vars

\* ------------------------------------- create_yandex_folder on its own

\* Number of create_yandex_folder calls made one after the other.
MaxCalls == 2

NoRequest == Resp("not sent", 0, 0)
Pending == [exc |-> "pending", msg |-> "", value |-> <<>>]

pipe_vars == <<pc, calls, fetched, ret_vars, fault_at, run_vars, file_vars>>

\* A call of create_yandex_folder with the day's folder name, up to the
\* return of check_folder_exists: the early return True, or on to the PUT.
EnsureCheck ==
    /\ ensure_pc = "idle"
    /\ Len(ensure_calls) < MaxCalls
    /\ \E r \in FolderGetResponses :
         IF check_folder_exists(r)
         THEN /\ ensure_pc' = "idle"
              /\ ensure_calls' = Append(ensure_calls,
                     [get |-> r, put |-> NoRequest, raced |-> FALSE,
                      out |-> Returns(TRUE)])
         ELSE /\ ensure_pc' = "put"
              /\ ensure_calls' = Append(ensure_calls,
                     [get |-> r, put |-> NoRequest, raced |-> FALSE,
                      out |-> Pending])
    /\ UNCHANGED <<pipe_vars, disk_vars, sel_vars, uid_vars, unsorted>>

\* The same call from its PUT to its return or raise.
EnsurePut ==
    /\ ensure_pc = "put"
    /\ \E r \in FolderPutResponses :
         /\ folder_exists' = (folder_exists \/ (r.net = "ok" /\ r.status = 201))
         /\ ensure_calls' = [ensure_calls EXCEPT ![Len(ensure_calls)] =
                [get |-> @.get, put |-> r, raced |-> @.raced,
                 out |-> put_yandex_folder(r)]]
    /\ ensure_pc' = "idle"
    /\ UNCHANGED <<pipe_vars, disk_files, sel_vars, uid_vars, unsorted>>

\* Somebody else creates the folder between the check and the PUT of a call.
EnsureOtherActor ==
    /\ ensure_pc = "put"
    /\ ~folder_exists
    /\ folder_exists' = TRUE
    /\ ensure_calls' = [ensure_calls EXCEPT ![Len(ensure_calls)].raced = TRUE]
    /\ UNCHANGED <<pipe_vars, disk_files, sel_vars, ensure_pc, uid_vars, unsorted>>

NextFolder ==
    \/ EnsureCheck
    \/ EnsurePut
    \/ EnsureOtherActor

SpecFolder == Init /\ [][NextFolder]_vars

\* -------------------------------- validate_and_clean_user_id on its own

\* Number of pieces an input string is put together from.
MaxPieces == 4

\* Strings are sequences of characters.
Link == <<"h", "t", "t", "p", "s", ":", "/", "/", "v", "k", ".", "c", "o", "m", "/">>
Digits == {"5", "3"}
Pieces == {Link, <<"i">>, <<"d">>, <<"@">>, <<"5">>, <<"3">>, <<" ">>, <<"x">>}

RECURSIVE Concat(_)
Concat(parts) == IF parts = <<>> THEN <<>> ELSE Head(parts) \o Concat(Tail(parts))

UserInputs == {Concat(parts) : parts \in SeqsUpTo(Pieces, MaxPieces)}

\* str.strip()
RECURSIVE lstrip(_)
lstrip(str) ==
    IF str # <<>> /\ Head(str) = " " THEN lstrip(Tail(str)) ELSE str
RECURSIVE rstrip(_)
rstrip(str) ==
    IF str # <<>> /\ str[Len(str)] = " "
    THEN rstrip(SubSeq(str, 1, Len(str) - 1)) ELSE str
strip(str) == rstrip(lstrip(str))

\* str.startswith(prefix), str[n:]
startswith(str, prefix) ==
    Len(str) >= Len(prefix) /\ SubSeq(str, 1, Len(prefix)) = prefix
From(str, n) == SubSeq(str, n + 1, Len(str))

\* str.replace(old, ''): every occurrence, left to right.
RECURSIVE remove(_, _)
remove(str, old) ==
    IF str = <<>> THEN <<>>
    ELSE IF startswith(str, old) THEN remove(From(str, Len(old)), old)
    ELSE <<Head(str)>> \o remove(Tail(str), old)

\* str.isdigit()
isdigit(str) == str # <<>> /\ \A k \in DOMAIN str : str[k] \in Digits

strip_prefixes(str) ==
    LET bare == IF startswith(str, Link) THEN remove(str, Link) ELSE str
    IN  IF startswith(bare, <<"i", "d">>) THEN From(bare, 2)
        ELSE IF startswith(bare, <<"@">>) THEN From(bare, 1)
        ELSE bare

validate_and_clean_user_id(user_id) ==
    LET cleaned == strip_prefixes(strip(user_id))
    IN  IF ~isdigit(cleaned) THEN Raises("ValueError", "bad user id")
        ELSE Returns(cleaned)

InitUserId ==
    /\ InitRun
    /\ folder_exists = FALSE
    /\ sel_photo = NoPhoto
    /\ sel_out = NoSel
    /\ EnsureIdle
    /\ unsorted = <<>>
    /\ user_id_arg \in UserInputs
    /\ user_id_out = NoSel

ValidateUserId ==
    /\ user_id_out.exc = "not called"
    /\ user_id_out' = validate_and_clean_user_id(user_id_arg)
    /\ UNCHANGED <<pipe_vars, disk_vars, sel_vars, ensure_vars, user_id_arg, unsorted>>

NextUserId == ValidateUserId

SpecUserId == InitUserId /\ [][NextUserId]_vars

\* ---------------------------------- generate_filename over a whole list

\* Number of photos of a list whose names are generated one after the other.
MaxNamed == 4

\* Photos that all carry one variant (the sort leaves their list as fetched):
\* likes that tie or not, repeated identifiers, and for the likes count 0
\* three capture times, two of them on the same day.
NameTimes == {0, 3600, 86400}
NamePhotos ==
    {[id |-> n, likes |-> 0, date |-> d, sizes |-> <<Variant(1, 1, "s")>>] :
        n \in PhotoIds, d \in NameTimes}
    \cup
    {[id |-> n, likes |-> 1, date |-> 0, sizes |-> <<Variant(1, 1, "s")>>] :
        n \in PhotoIds}

InitNames ==
    /\ pc = "upload_loop"
    /\ calls = <<>>
    /\ photos \in SeqsUpTo(NamePhotos, MaxNamed)
    /\ fetched = Len(photos)
    /\ processed = <<>>
    /\ used_filenames = {}
    /\ allocated = <<>>
    /\ photos_info = <<>>
    /\ successful_uploads = 0
    /\ result = NoResult
    /\ escaped = "none"
    /\ failed_at = "none"
    /\ fault_at = "none"
    /\ folder_exists = TRUE
    /\ disk_files = {}
    /\ manifest_file = "absent"
    /\ manifest_content = <<>>
    /\ sel_photo = NoPhoto
    /\ sel_out = NoSel
    /\ EnsureIdle
    /\ LoneIdle

\* filename = self.generate_filename(photo, photos, used_filenames) for the
\* next photo of the list.
NameItem ==
    /\ Len(allocated) < Len(photos)
    /\ LET n == Len(allocated) + 1
           filename == generate_filename(photos[n], photos, used_filenames)
       IN  /\ used_filenames' = used_filenames \cup {filename}
           /\ allocated' = Append(allocated, [position |-> n, file_name |-> filename])
    /\ UNCHANGED <<pc, calls, fetched, photos, processed, photos_info,
                   successful_uploads, ret_vars, fault_at, disk_vars, file_vars,
                   sel_vars, lone_vars>>

NextNames == NameItem

SpecNames == InitNames /\ [][NextNames]_vars

\* ------------------------------------------ the sort of backup_photos alone

\* Longest fetched list handed to the sort.
MaxSorted == 4

\* Photos told apart by their identifier: without variants, with a variant
\* of area 0 (VK gives width 0 and height 0 for old uploads), of area 1,
\* and with two variants the larger of area 2.
SortSizeLists == {<<>>, <<Variant(0, 0, "s")>>, <<Variant(1, 1, "s")>>,
                  <<Variant(1, 1, "s"), Variant(2, 1, "m")>>}
SortPhotos == [id : PhotoIds, likes : {0}, date : CaptureDates, sizes : SortSizeLists]

InitSort ==
    /\ InitRun
    /\ folder_exists = FALSE
    /\ sel_photo = NoPhoto
    /\ sel_out = NoSel
    /\ EnsureIdle
    /\ user_id_arg = <<>>
    /\ user_id_out = NoSel
    /\ unsorted \in SeqsUpTo(SortPhotos, MaxSorted) \ {<<>>}

\* photos.sort(key=get_max_size, reverse=True) on a fetched list.
SortFetched ==
    /\ pc = "check_vk"
    /\ pc' = "create_folder"
    /\ fetched' = Len(unsorted)
    /\ photos' = sort_photos(unsorted)
    /\ UNCHANGED <<calls, ret_vars, fault_at, processed, used_filenames, allocated,
                   photos_info, successful_uploads, disk_vars, file_vars, sel_vars,
                   lone_vars>>

NextSort == SortFetched

SpecSort == InitSort /\ [][NextSort]_vars

\* ================================================================ claims

\* The names generate_filename has returned so far in the run.
AllocatedNames == {allocated[a].file_name : a \in DOMAIN allocated}

\* Passes of the loop by the answer of the service, and the positions of
\* `photos` whose pass raised nothing (the item succeeded).
Answered(class) == {n \in DOMAIN processed : processed[n].answer = class}
UploadedPositions == {n \in DOMAIN processed : ~processed[n].raised}

\* backup_photos has returned after going through the whole loop.
AfterLoop == pc = "done" /\ failed_at \in {"none", "no_uploads", "save_photos_info"}

ResultSuccess == "success" \in DOMAIN result /\ result.success
ResultFailure ==
    /\ DOMAIN result = {"success", "message"}
    /\ result.success = FALSE
    /\ result.message # ""

\* C1: the filenames generate_filename returns within one run are pairwise
\* distinct, and the tracking set holds exactly the names returned so far, so
\* no call returns a name the set held when the call started; this for every
\* photo list and every pattern of upload outcomes.
C1_FilenamesDistinct ==
    /\ \A a, b \in DOMAIN allocated :
         a # b => allocated[a].file_name # allocated[b].file_name
    /\ used_filenames = AllocatedNames

\* Three photos of equal likes, date and identifier were named (the third
\* name carries the numeric suffix) while an upload of the run failed.
C1_Witness ==
    /\ Len(allocated) = 3
    /\ \A a \in DOMAIN allocated :
         /\ photos[allocated[a].position].id = photos[1].id
         /\ photos[allocated[a].position].likes = photos[1].likes
    /\ allocated[3].file_name =
         <<Num(photos[1].likes), Date(strftime(photos[1].date)), Num(photos[1].id), Num(2), Ext>>
    /\ Answered("fault") # {}

\* C2: for a photo with variants, get_largest_photo_size returns the URL and
\* type of the first variant in list order whose width*height is maximal
\* over the list; for a photo with no variant it raises and returns nothing.
C2_LargestFirst ==
    sel_out.exc # "not called" =>
        IF sel_photo.sizes = <<>>
        THEN sel_out.exc = "ValueError" /\ sel_out.value = <<>>
        ELSE /\ sel_out.exc = "none"
             /\ \E k \in DOMAIN sel_photo.sizes :
                  /\ \A j \in DOMAIN sel_photo.sizes :
                       Area(sel_photo.sizes[j]) <= Area(sel_photo.sizes[k])
                  /\ \A j \in 1..(k - 1) :
                       Area(sel_photo.sizes[j]) < Area(sel_photo.sizes[k])
                  /\ sel_out.value = [url |-> sel_photo.sizes[k].url,
                                      type |-> sel_photo.sizes[k].type]

\* A call on a list whose maximal area is shared by two variants of
\* different type, the smaller variant standing first.
C2_Witness ==
    /\ sel_out.exc = "none"
    /\ Len(sel_photo.sizes) = 3
    /\ Area(sel_photo.sizes[1]) < Area(sel_photo.sizes[2])
    /\ Area(sel_photo.sizes[2]) = Area(sel_photo.sizes[3])
    /\ sel_photo.sizes[2].type # sel_photo.sizes[3].type
    /\ sel_out.value.type = sel_photo.sizes[2].type

ResultSuccessShape ==
    /\ DOMAIN result = {"success", "total_photos", "uploaded_photos",
                        "folder_name", "json_file", "photos_info"}
    /\ result.success = TRUE

\* The loop is over and every pass of it raised.
AllItemsFailed ==
    /\ pc = "done"
    /\ fetched >= 1
    /\ Len(processed) = fetched
    /\ UploadedPositions = {}

\* C3 as stated: after the loop the success flag is true if and only if at
\* least one photo was uploaded successfully, no exception propagating.
C3_AsStated ==
    AfterLoop => /\ escaped = "none"
                 /\ ResultSuccess <=> (UploadedPositions # {})

\* C3 as amended: after the loop the success flag is true if and only if at
\* least one photo was uploaded successfully and the manifest was written;
\* zero successes or a failed manifest write give success=false, and no
\* exception propagates.
C3_SuccessIffUploadedAndSaved ==
    AfterLoop => /\ escaped = "none"
                 /\ ResultSuccess <=>
                      (UploadedPositions # {} /\ fault_at # "save_photos_info")

\* A run reported as success although one of its uploads failed.
C3_Witness ==
    /\ AfterLoop
    /\ ResultSuccess
    /\ Answered("fault") # {}
    /\ successful_uploads < Len(photos)

\* What C4 promises of a run: success, uploaded = k, total = N, a manifest of
\* exactly k entries, one per successfully uploaded photo.
PartialSuccessReported ==
    /\ ResultSuccess
    /\ result.uploaded_photos = Cardinality(UploadedPositions)
    /\ result.total_photos = fetched
    /\ manifest_file = "written"
    /\ Len(manifest_content) = Cardinality(UploadedPositions)
    /\ \E f \in [DOMAIN manifest_content -> UploadedPositions] :
         /\ \A m, n \in DOMAIN manifest_content : m < n => f[m] < f[n]
         /\ \A m \in DOMAIN manifest_content :
              \E a \in DOMAIN allocated :
                /\ allocated[a].position = f[m]
                /\ allocated[a].file_name = manifest_content[m].file_name

\* C4 as stated: a run with N fetched photos of which exactly k >= 1 uploads
\* succeed has success=true, uploaded = k, total = N and a manifest of
\* exactly k entries, one per successfully uploaded photo.
C4_AsStated ==
    (AfterLoop /\ UploadedPositions # {}) => PartialSuccessReported

\* C4 as amended: the same, for the runs whose manifest write succeeds.
C4_PartialSuccessCounts ==
    (AfterLoop /\ UploadedPositions # {} /\ fault_at # "save_photos_info")
        => PartialSuccessReported

\* Three photos fetched, two uploaded, one upload answered with a fault.
C4_Witness ==
    /\ AfterLoop
    /\ fetched = 3
    /\ Cardinality(UploadedPositions) = 2
    /\ Cardinality(Answered("fault")) = 1
    /\ ResultSuccess

C7_ItemIsolation ==
    /\ \A n \in DOMAIN processed : processed[n].position = n
    /\ Len(processed) <= Len(photos)
    /\ failed_at # "upload_loop"
    /\ (processed # <<>> /\ Len(processed) < Len(photos)) => pc = "upload_loop"
    /\ (pc = "done" /\ failed_at \in {"none", "no_uploads", "save_photos_info"})
         => Len(processed) = fetched

\* A finished run whose first upload met a fault, whose second was accepted
\* and whose third photo had no sizes.
C7_Witness ==
    /\ pc = "done"
    /\ Len(processed) = 3
    /\ processed[1].answer = "fault"
    /\ processed[2].answer = "accepted"
    /\ processed[3].answer = "no_request"

SetupCalls == <<"check_vk_token_validity", "check_yandex_disk_availability",
                "get_profile_photos", "create_yandex_folder">>
SetupSteps == <<"check_vk", "check_yandex", "get_photos", "create_folder">>

\* C8: when the source-token check, the destination-token check, the fetch
\* or the folder creation meets a fault, backup_photos has returned at that
\* step with success=false and a message, has called none of the later
\* steps, has attempted no upload and has written no manifest.
C8_SetupFaultsFatal ==
    \A k \in DOMAIN SetupSteps :
        fault_at = SetupSteps[k] =>
            /\ pc = "done"
            /\ failed_at = SetupSteps[k]
            /\ ResultFailure
            /\ calls = SubSeq(SetupCalls, 1, k)
            /\ processed = <<>>
            /\ allocated = <<>>
            /\ disk_files = {}
            /\ manifest_file = "absent"

\* The folder creation failed after a non-empty fetch.
C8_Witness ==
    /\ fault_at = "create_folder"
    /\ fetched >= 1
    /\ pc = "done"

\* C9: a photo is counted and entered in the manifest only if its upload
\* request was answered with status 202; every other answer makes
\* upload_photo_to_yandex raise.
C9_OnlyAccepted ==
    /\ \A n \in DOMAIN processed :
         processed[n].answer # "accepted" => processed[n].raised
    /\ successful_uploads = Cardinality(Answered("accepted"))
    /\ \A m \in DOMAIN photos_info : photos_info[m].file_name \in disk_files

CompletedCalls == {n \in DOMAIN ensure_calls : ensure_calls[n].out.exc # "pending"}
SucceededCalls == {n \in CompletedCalls : ensure_calls[n].out.exc = "none"}

\* C11 as stated: once a call of create_yandex_folder has succeeded, the
\* next call in sequence succeeds too and issues no creation request.
C11_AsStated ==
    \A n \in CompletedCalls :
        (n - 1) \in SucceededCalls =>
            /\ n \in SucceededCalls
            /\ ensure_calls[n].put = NoRequest

\* C11: the folder exists after every call that succeeded, and a call fails
\* only on a storage fault answered to its creation request.  A call made
\* after a successful one issues no creation request and succeeds when its
\* existence check is answered 200; when the existence check itself meets a
\* fault, the folder is taken as absent, a creation request is issued, and
\* the call succeeds exactly when that request is answered 409.
C11_Idempotent ==
    /\ SucceededCalls # {} => folder_exists
    /\ \A n \in CompletedCalls \ SucceededCalls :
         ensure_calls[n].put \in FolderFaults
    /\ \A n \in CompletedCalls :
         (n - 1) \in SucceededCalls =>
             LET c == ensure_calls[n]
             IN  IF c.get.net = "ok" /\ c.get.status = 200
                 THEN c.put = NoRequest /\ n \in SucceededCalls
                 ELSE /\ c.get \in FolderFaults
                      /\ c.put # NoRequest
                      /\ (n \in SucceededCalls <=> c.put.status = 409)

\* The first call created the folder (201); the second found it and
\* returned without a creation request.
C11_Witness ==
    /\ Len(ensure_calls) = 2
    /\ CompletedCalls = {1, 2}
    /\ SucceededCalls = {1, 2}
    /\ ensure_calls[1].put.status = 201
    /\ ensure_calls[2].get.status = 200
    /\ ensure_calls[2].put = NoRequest
    /\ folder_exists

\* The calls during which somebody else created the folder between the
\* existence check and the creation request.
RacedCalls == {n \in CompletedCalls : ensure_calls[n].raced}

\* C12: whatever an external actor does between the existence check and the
\* creation request, create_yandex_folder succeeds when the request is
\* answered 201 or 409 alike, a raced call whose request is answered gets
\* 409 and succeeds, and a call fails only when the request met a storage
\* fault (no connection, 5xx), which leaves the folder as it was.
C12_ConflictIsSuccess ==
    \A n \in CompletedCalls :
        LET c == ensure_calls[n]
        IN  /\ c.put.status \in {201, 409} => n \in SucceededCalls
            /\ n \in RacedCalls /\ c.put \notin FolderFaults =>
                   c.put.status = 409 /\ n \in SucceededCalls
            /\ n \notin SucceededCalls => c.put \in FolderFaults
            /\ n \in SucceededCalls => folder_exists

\* The folder was absent at the check, somebody created it before the PUT,
\* the PUT was answered 409 and the call returned True.
C12_Witness ==
    \E n \in RacedCalls :
        /\ ensure_calls[n].get.status = 404
        /\ ensure_calls[n].put.status = 409
        /\ n \in SucceededCalls
        /\ folder_exists

\* How often backup_photos has called save_photos_info.
ManifestWrites == Cardinality({k \in DOMAIN calls : calls[k] = "save_photos_info"})

\* The name generate_filename gave the photo at position n of `photos`.
NameAt(n) == (CHOOSE a \in {allocated[k] : k \in DOMAIN allocated} : a.position = n).file_name

\* The {file_name, size} pairs of the photos among the first n whose pass
\* raised nothing, in the order of the passes.
RECURSIVE UploadedEntries(_)
UploadedEntries(n) ==
    IF n = 0 THEN <<>>
    ELSE IF n \in UploadedPositions
         THEN Append(UploadedEntries(n - 1),
                     [file_name |-> NameAt(n),
                      size |-> get_largest_photo_size(photos[n]).value.type])
         ELSE UploadedEntries(n - 1)

\* C13 as stated: once the run is over, a manifest file is there if and only
\* if at least one upload succeeded.
C13_AsStated ==
    AfterLoop => (manifest_file # "absent" <=> UploadedPositions # {})

\* C13: save_photos_info is called at most once per run, only when every
\* photo has been attempted and at least one upload succeeded, and the run
\* is over once the file was touched.  After the loop the manifest is
\* written if and only if at least one upload succeeded and the write met
\* no IOError (a failed write leaves no file or a truncated one).  A
\* written manifest holds the {file_name, size} pairs of the successfully
\* uploaded photos in the order in which they were processed.
C13_ManifestOnce ==
    /\ ManifestWrites <= 1
    /\ ManifestWrites = 1 =>
         /\ pc = "done"
         /\ Len(processed) = Len(photos)
         /\ UploadedPositions # {}
    /\ manifest_file # "absent" => ManifestWrites = 1
    /\ AfterLoop =>
         /\ ManifestWrites = 1 <=> UploadedPositions # {}
         /\ manifest_file = "written" <=>
                (UploadedPositions # {} /\ fault_at # "save_photos_info")
    /\ manifest_file = "written" =>
         manifest_content = UploadedEntries(Len(photos))
    /\ manifest_file # "written" => manifest_content = <<>>

\* Three photos were attempted, the second one failed, and the manifest was
\* written with the two others in order.
C13_Witness ==
    /\ manifest_file = "written"
    /\ Len(photos) = 3
    /\ UploadedPositions = {1, 3}
    /\ Len(manifest_content) = 2
    /\ manifest_content[1].file_name = NameAt(1)
    /\ manifest_content[2].file_name = NameAt(3)

\* The forms of an identifier the prompts and the error message give as
\* examples: 53688675, id53688675, @id53688675, https://vk.com/id53688675.
AdvertisedPrefixes == {<<>>, <<"i", "d">>, <<"@", "i", "d">>, Link \o <<"i", "d">>}
AdvertisedAs(str, prefix) ==
    startswith(str, prefix) /\ isdigit(From(str, Len(prefix)))
Advertised(str) == \E prefix \in AdvertisedPrefixes : AdvertisedAs(str, prefix)

\* C14: validate_and_clean_user_id returns the digits of every input of an
\* advertised form (plain number, id prefix, @id prefix, profile link), and
\* raises only for inputs of none of these forms.
C14_AdvertisedFormsAccepted ==
    user_id_out.exc # "not called" =>
        /\ \A prefix \in AdvertisedPrefixes :
             AdvertisedAs(user_id_arg, prefix) =>
                 /\ user_id_out.exc = "none"
                 /\ user_id_out.value = From(user_id_arg, Len(prefix))
        /\ user_id_out.exc = "ValueError" => ~Advertised(user_id_arg)

\* Where in `calls` a method was called, and "every call of b comes after a
\* call of a".
CallsOf(name) == {k \in DOMAIN calls : calls[k] = name}
Precedes(a, b) == \A k \in CallsOf(b) : \E j \in CallsOf(a) : j < k

NoMutationRequested ==
    /\ CallsOf("create_yandex_folder") = {}
    /\ CallsOf("upload_photo_to_yandex") = {}
    /\ CallsOf("save_photos_info") = {}
    /\ disk_files = {}
    /\ manifest_file = "absent"

\* C15: the steps of a run come in the order check VK token, check
\* Yandex.Disk token, fetch, provision folder, upload, write manifest.
\* create_yandex_folder is called (and its PUT issued) only after both
\* checks passed and a non-empty list was fetched; an upload is requested
\* only after create_yandex_folder returned, with the folder there; a run
\* that ends at a failed check, a failed fetch or an empty profile has
\* requested no folder, no upload and no manifest.
C15_StepOrder ==
    /\ Precedes("check_vk_token_validity", "check_yandex_disk_availability")
    /\ Precedes("check_yandex_disk_availability", "get_profile_photos")
    /\ Precedes("get_profile_photos", "create_yandex_folder")
    /\ Precedes("create_yandex_folder", "upload_photo_to_yandex")
    /\ Precedes("upload_photo_to_yandex", "save_photos_info")
    /\ \A k \in CallsOf("save_photos_info") : k = Len(calls)
    /\ CallsOf("create_yandex_folder") # {} =>
         /\ fetched > 0
         /\ fault_at \notin {"check_vk", "check_yandex", "get_photos"}
    /\ pc = "put_folder" => CallsOf("create_yandex_folder") # {}
    /\ CallsOf("upload_photo_to_yandex") # {} =>
         /\ pc \in {"upload_loop", "done"}
         /\ failed_at # "create_folder"
         /\ folder_exists
    /\ failed_at \in {"check_vk", "check_yandex", "get_photos", "no_photos"} =>
         NoMutationRequested
    /\ failed_at = "no_photos" => fetched = 0

\* A run went through all six steps and returned its success result.
C15_Witness ==
    /\ pc = "done"
    /\ ResultSuccess
    /\ \A name \in {"check_vk_token_validity", "check_yandex_disk_availability",
                    "get_profile_photos", "create_yandex_folder",
                    "upload_photo_to_yandex", "save_photos_info"} :
         CallsOf(name) # {}
    /\ Cardinality(CallsOf("upload_photo_to_yandex")) = 2

\* The photo a name was generated for, and whether its likes count occurs
\* more than once in the whole list.
NamedPhoto(a) == photos[allocated[a].position]
LikesTied(photo) ==
    \E j, k \in DOMAIN photos :
        j # k /\ photos[j].likes = photo.likes /\ photos[k].likes = photo.likes
CalendarDay(photo) == photo.date \div 86400

\* C16: a generated filename begins likes_date exactly when more than one
\* photo of the whole list has the photo's likes count, and is likes.jpg
\* otherwise; two photos of equal likes count taken on different days both
\* get names with their date, and the names differ.
C16_DateWhenLikesTie ==
    /\ \A a \in DOMAIN allocated :
         LET photo == NamedPhoto(a)
             name == allocated[a].file_name
         IN  IF LikesTied(photo)
             THEN /\ Len(name) >= 3
                  /\ name[1] = Num(photo.likes)
                  /\ name[2] = Date(CalendarDay(photo))
             ELSE name = <<Num(photo.likes), Ext>>
    /\ \A a, b \in DOMAIN allocated :
         /\ NamedPhoto(a).likes = NamedPhoto(b).likes
         /\ CalendarDay(NamedPhoto(a)) # CalendarDay(NamedPhoto(b))
         => /\ allocated[a].file_name[2] = Date(CalendarDay(NamedPhoto(a)))
            /\ allocated[b].file_name[2] = Date(CalendarDay(NamedPhoto(b)))
            /\ allocated[a].file_name # allocated[b].file_name

\* Three photos were named: two of equal likes taken on different days,
\* named likes_date.jpg each, and one whose likes count is its own, named
\* likes.jpg.
C16_Witness ==
    /\ Len(allocated) = 3
    /\ \E a, b, c \in DOMAIN allocated :
         /\ NamedPhoto(a).likes = NamedPhoto(b).likes
         /\ CalendarDay(NamedPhoto(a)) # CalendarDay(NamedPhoto(b))
         /\ allocated[a].file_name =
                <<Num(NamedPhoto(a).likes), Date(CalendarDay(NamedPhoto(a))), Ext>>
         /\ allocated[b].file_name =
                <<Num(NamedPhoto(b).likes), Date(CalendarDay(NamedPhoto(b))), Ext>>
         /\ ~LikesTied(NamedPhoto(c))
         /\ allocated[c].file_name = <<Num(NamedPhoto(c).likes), Ext>>

\* The candidates of the ladder for a photo: base.jpg, base_id.jpg, then
\* base_id_n.jpg for n = 2, 3, ...
Rung(photo, n) ==
    LET base == base_filename(photo, photos)
    IN  IF n = 0 THEN base \o <<Ext>>
        ELSE IF n = 1 THEN base \o <<Num(photo.id), Ext>>
        ELSE base \o <<Num(photo.id), Num(n), Ext>>

\* The tracking set as it was when the a-th name was generated.
UsedBefore(a) == {allocated[k].file_name : k \in 1..(a - 1)}

\* C17: the name generate_filename returns is the first candidate of the
\* ladder base.jpg, base_id.jpg, base_id_2.jpg, base_id_3.jpg, ... that the
\* tracking set does not hold, and the set holds it afterwards.
C17_CollisionLadder ==
    \A a \in DOMAIN allocated :
        \E n \in 0..Len(photos) :
            /\ allocated[a].file_name = Rung(NamedPhoto(a), n)
            /\ \A m \in 0..(n - 1) : Rung(NamedPhoto(a), m) \in UsedBefore(a)
            /\ Rung(NamedPhoto(a), n) \notin UsedBefore(a)
            /\ allocated[a].file_name \in used_filenames

\* Four photos of equal likes, day and identifier were named: base.jpg,
\* base_id.jpg, base_id_2.jpg and base_id_3.jpg in this order.
C17_Witness ==
    /\ Len(allocated) = 4
    /\ \A a \in 1..4 : allocated[a].file_name = Rung(photos[1], a - 1)
    /\ allocated[4].file_name =
           <<Num(photos[1].likes), Date(CalendarDay(photos[1])), Num(photos[1].id),
             Num(3), Ext>>

\* The sort has run on the list `unsorted`.
Sorted == pc = "create_folder" /\ unsorted # <<>>
NoVariants(photo) == photo.sizes = <<>>

\* C18 as stated: besides being in non-increasing order of maximal area,
\* the list to process has every photo without variants behind every photo
\* with variants.
C18_AsStated ==
    Sorted =>
        \A j, k \in DOMAIN photos :
            j < k =>
                /\ get_max_size(photos[j]) >= get_max_size(photos[k])
                /\ ~(NoVariants(photos[j]) /\ ~NoVariants(photos[k]))

\* C18: the list to process is the fetched list rearranged in non-increasing
\* order of maximal variant area, a photo without variants counting as area
\* 0 (so it comes behind every photo of positive area, and among the photos
\* whose variants all have area 0 in fetched order); photos of equal maximal
\* area keep their fetched relative order.  One arrangement of the fetched
\* list has these properties, so the order is a function of that list.
C18_StableDescending ==
    Sorted =>
        /\ Len(photos) = Len(unsorted)
        /\ \E from \in Permutations(DOMAIN unsorted) :
             /\ \A k \in DOMAIN photos : photos[k] = unsorted[from[k]]
             /\ \A j, k \in DOMAIN photos :
                  j < k =>
                      \/ get_max_size(photos[j]) > get_max_size(photos[k])
                      \/ /\ get_max_size(photos[j]) = get_max_size(photos[k])
                         /\ from[j] < from[k]
        /\ \A j, k \in DOMAIN photos :
             j < k /\ NoVariants(photos[j]) => get_max_size(photos[k]) = 0

\* A list of four was rearranged: the photo of largest area came last in
\* the fetched list and is first now, two photos of equal area and
\* different identifiers kept their order, and the photo without variants
\* is last.
C18_Witness ==
    /\ Sorted
    /\ Len(photos) = 4
    /\ photos[1] = unsorted[4]
    /\ get_max_size(photos[1]) > get_max_size(photos[2])
    /\ get_max_size(photos[2]) = get_max_size(photos[3])
    /\ get_max_size(photos[3]) > 0
    /\ photos[2].id # photos[3].id
    /\ photos[2] = unsorted[2]
    /\ photos[3] = unsorted[3]
    /\ NoVariants(photos[4])
    /\ photos[4] = unsorted[1]

\* C19: no step of the pipeline takes the destination folder or an accepted
\* upload away: a folder that exists and every item the service accepted
\* are still there after each step, whatever the step's outcome, hence at
\* every point where a run may end or be interrupted.
C19_NoRollback ==
    [][/\ folder_exists => folder_exists'
       /\ disk_files \subseteq disk_files'
       /\ \A n \in Answered("accepted") : NameAt(n) \in disk_files']_vars

\* A run ended in failure at the manifest write after an upload was
\* accepted and a later one failed; folder and item are in place.
C19_Witness ==
    /\ pc = "done"
    /\ failed_at = "save_photos_info"
    /\ \E n \in Answered("accepted"), m \in Answered("fault") :
         n < m /\ NameAt(n) \in disk_files
    /\ folder_exists

\* backup_photos has returned a result or let an exception out.
Terminal ==
    /\ pc = "done"
    /\ "success" \in DOMAIN result \/ escaped # "none"
    /\ failed_at \in {"check_vk", "check_yandex", "get_photos", "no_photos",
                      "create_folder", "upload_loop", "no_uploads",
                      "save_photos_info", "none"}

\* Each step of the setup is taken at most once and each photo is gone
\* through at most once, in the order of the list.
AtMostOneAttempt ==
    /\ \A name \in {"check_vk_token_validity", "check_yandex_disk_availability",
                    "get_profile_photos", "create_yandex_folder",
                    "save_photos_info"} :
         Cardinality(CallsOf(name)) <= 1
    /\ Len(processed) <= Len(photos)
    /\ \A n \in DOMAIN processed : processed[n].position = n
    /\ Cardinality(CallsOf("upload_photo_to_yandex")) <= Len(processed)

\* The while loop of generate_filename made no more iterations than the
\* tracking set had names: the name returned is rung n of the ladder for an
\* n not above the size of the set.
RetryBounded ==
    \A a \in DOMAIN allocated :
        \E n \in 0..Cardinality(UsedBefore(a)) :
            allocated[a].file_name = Rung(NamedPhoto(a), n)

\* C20: every run of backup_photos, its requests answering or timing out,
\* comes to an end (a result returned or an exception let out, at a failed
\* setup step, at the empty list, or after the loop), having taken each
\* setup step at most once and gone through each photo at most once, each
\* generate_filename call ending after at most as many retries as the
\* tracking set holds names.
C20_Terminates ==
    /\ [](AtMostOneAttempt /\ RetryBounded /\ (pc = "done" => Terminal))
    /\ <>Terminal

\* A run over three photos ended after the loop; the third name was found
\* after two retries.
C20_Witness ==
    /\ Terminal
    /\ failed_at = "none"
    /\ Len(processed) = 3
    /\ Len(allocated) = 3
    /\ allocated[3].file_name = Rung(NamedPhoto(3), 2)

\* The photo at position n reaches generate_filename (its size selection
\* raises nothing).
ReachesAllocation(n) == get_largest_photo_size(photos[n]).exc = "none"

\* The names of the photos among the first n, computed from the list alone:
\* each photo that reaches allocation is named against the names of all
\* such photos before it, whatever became of their uploads.
RECURSIVE OutcomeFreeNames(_)
OutcomeFreeNames(n) ==
    IF n = 0 THEN {}
    ELSE LET before == OutcomeFreeNames(n - 1)
         IN  IF ~ReachesAllocation(n) THEN before
             ELSE before \cup
                  {[position |-> n,
                    file_name |-> generate_filename(photos[n], photos,
                                      {e.file_name : e \in before})]}

\* C21: the filename of every photo that reaches allocation is the one the
\* photo list alone determines, whichever uploads of the run succeeded or
\* failed; hence two runs over the same list that differ only in upload
\* outcomes give each such photo the same name.  The tracking set holds
\* the names of all photos allocated so far, failed uploads included.
C21_NamesIgnoreOutcomes ==
    /\ \A a \in DOMAIN allocated :
         allocated[a] \in OutcomeFreeNames(allocated[a].position)
    /\ \A n \in DOMAIN processed :
         ReachesAllocation(n) => \E a \in DOMAIN allocated : allocated[a].position = n
    /\ used_filenames = {e.file_name : e \in OutcomeFreeNames(Len(processed))}

\* The upload of the first photo failed, the upload of the second, a photo
\* of the same likes, day and identifier, was accepted; the second was named
\* base_id.jpg because base.jpg stayed reserved.
C21_Witness ==
    /\ Len(processed) >= 2
    /\ processed[1].answer = "fault"
    /\ processed[2].answer = "accepted"
    /\ Len(allocated) >= 2
    /\ allocated[1].file_name = Rung(photos[1], 0)
    /\ allocated[2].file_name = Rung(photos[1], 1)
    /\ allocated[2].position = 2
    /\ allocated[1].file_name \in used_filenames
    /\ allocated[1].file_name \notin disk_files

====
